---- MODULE Spec2Model ----
(***************************************************************************)
(* Shard routing of database/sharding/main.py: the consistent-hashing     *)
(* ring (ConsistentHashing), the per-shard session helper (get_session)   *)
(* and the two request handlers create_user and get_user, each run by a   *)
(* caller that may interleave with the other callers at every statement   *)
(* that touches the shard's connection pool or its stored rows.           *)
(*                                                                         *)
(* hashlib.md5 is modelled as an arbitrary fixed function md5 from the     *)
(* strings the program hashes into 0..HashSpace-1: it is chosen once and   *)
(* never changes, so every property checked holds whatever the digest is.  *)
(* A User row carries its user_id and one attribute value standing for    *)
(* (name, region, email), which the handlers copy together.               *)
(***************************************************************************)
EXTENDS Integers, Sequences, FiniteSets, TLC

\* ------------------------------------------------------------------ bounds
HashSpace == 3          \* ring positions are 0..HashSpace-1 (2^128 in the source)
MaxVirtualNodes == 1    \* virtual_nodes ranges over 0..MaxVirtualNodes
MaxUserId == 2          \* user_id ranges over 1..MaxUserId
NumCallers == 2         \* concurrent requests
PoolSize == 1           \* connections a shard's engine lends at once

\* --------------------------------------------------------- configuration
DATABASE_URLS == {"shard_1", "shard_2", "shard_3"}
\* A session-factory table built from fewer URLs than the ring has shards.
SESSION_MAKERS_two == {"shard_1", "shard_2"}
SESSION_MAKERS == DATABASE_URLS
SHARDS == <<"shard_1", "shard_2", "shard_3">>

UserIds == 1..MaxUserId
Attrs == {"a", "b"}
Callers == 1..NumCallers
Positions == 0..(HashSpace - 1)

VARIABLES
    nodes,          \* ConsistentHashing.nodes
    virtual_nodes,  \* ConsistentHashing.virtual_nodes
    ring,           \* ConsistentHashing.ring: position -> shard
    md5,            \* the digest: string -> position
    lookup,         \* the last direct get_node call: <<key, result>>, or <<>>
    routed,         \* every <<key, result>> a handler's get_node call produced
    pc, op, user, shard, session, exc, result, trace,   \* per caller
    began,          \* per get: the creates that had returned a user when it was called
    checkedout,     \* per shard: connections out of the engine's pool
    rows            \* per shard: committed rows, user_id -> attributes

ringVars == <<nodes, virtual_nodes, ring, md5>>
callVars == <<pc, op, user, shard, session, exc, result, trace, began>>
dbVars == <<checkedout, rows>>
vars == <<ringVars, lookup, routed, callVars, dbVars>>

\* ------------------------------------------------------ ConsistentHashing
str(n) == ToString(n)

VirtualNodeName(node, i) == node \o "#" \o str(i)

\* The strings hashed by a ring over ns with v virtual nodes and by lookups of
\* the user ids ks.
Hashed(ns, v, ks) ==
    {VirtualNodeName(ns[j], i) : j \in 1..Len(ns), i \in 0..(v - 1)}
        \cup {str(k) : k \in ks}

_hash(key) == md5[key]

\* The (node, i) pairs in the order _build_ring's two loops visit them.
RECURSIVE VirtualNodes(_, _, _)
VirtualNodes(ns, v, i) ==
    IF ns = <<>> THEN <<>>
    ELSE IF i >= v THEN VirtualNodes(Tail(ns), v, 0)
    ELSE <<(<<Head(ns), i>>)>> \o VirtualNodes(ns, v, i + 1)

\* An insertion that keeps the earlier owner of a position.
PutFirst(r, position, node) ==
    [p \in DOMAIN r \cup {position} |-> IF p \in DOMAIN r THEN r[p] ELSE node]

\* self.ring[hash_value] = node
Put(r, position, node) ==
    [p \in DOMAIN r \cup {position} |-> IF p = position THEN node ELSE r[p]]

RECURSIVE Place(_, _)
Place(r, vns) ==
    IF vns = <<>> THEN r
    ELSE Place(Put(r, _hash(VirtualNodeName(Head(vns)[1], Head(vns)[2])), Head(vns)[1]),
               Tail(vns))

_build_ring(ns, v) == Place(<<>>, VirtualNodes(ns, v, 0))

Min(S) == CHOOSE x \in S : \A y \in S : x <= y

\* sorted(self.ring.keys())
RECURSIVE sorted(_)
sorted(S) == IF S = {} THEN <<>> ELSE <<Min(S)>> \o sorted(S \ {Min(S)})

\* A scan that never wraps: past the last position it falls off the ring.
RECURSIVE ScanNoWrap(_, _)
ScanNoWrap(positions, key_hash) ==
    IF positions = <<>> THEN "none"
    ELSE IF Head(positions) >= key_hash THEN ring[Head(positions)]
    ELSE ScanNoWrap(Tail(positions), key_hash)

\* A scan that skips a position equal to the key's hash (> for >=).
RECURSIVE ScanStrict(_, _)
ScanStrict(positions, key_hash) ==
    IF positions = <<>> THEN ring[Min(DOMAIN ring)]
    ELSE IF Head(positions) > key_hash THEN ring[Head(positions)]
    ELSE ScanStrict(Tail(positions), key_hash)

\* The for loop of get_node: the first position of the sorted list at or after
\* key_hash, or the minimum position when the loop ends without returning.
RECURSIVE Scan(_, _)
Scan(positions, key_hash) ==
    IF positions = <<>> THEN ring[Min(DOMAIN ring)]
    ELSE IF Head(positions) >= key_hash THEN ring[Head(positions)]
    ELSE Scan(Tail(positions), key_hash)


Raised(e) == [ok |-> FALSE, value |-> e]
Returned(v) == [ok |-> TRUE, value |-> v]

\* An exception as the caller sees it; HTTPException carries status and detail.
Exc(type) == [type |-> type, status |-> 0, detail |-> "none"]
HTTPException(status_code, detail) ==
    [type |-> "HTTPException", status |-> status_code, detail |-> detail]

\* Routing by load instead of by hash: the shard with the fewest connections out.
get_node_least_busy(key) ==
    IF DOMAIN ring = {} THEN Raised("ValueError")
    ELSE Returned(CHOOSE n \in {ring[p] : p \in DOMAIN ring} :
                      \A m \in {ring[p] : p \in DOMAIN ring} : checkedout[n] <= checkedout[m])

\* An empty ring answered with a default shard instead of the error.
get_node_default(key) ==
    IF DOMAIN ring = {} THEN Returned(SHARDS[1])
    ELSE Returned(Scan(sorted(DOMAIN ring), _hash(key)))

get_node(key) ==
    IF DOMAIN ring = {} THEN Raised("ValueError")
    ELSE Returned(Scan(sorted(DOMAIN ring), _hash(key)))

\* ----------------------------------------------------------------- states
NodeLists == {SubSeq(SHARDS, 1, n) : n \in 0..Len(SHARDS)}

NoUser == [user_id |-> 0, attrs |-> "none"]
NoSession == [bind |-> "none", open |-> FALSE, conn |-> FALSE, new |-> FALSE, inserted |-> FALSE]

IdleCallers ==
    /\ pc = [c \in Callers |-> "idle"]
    /\ op = [c \in Callers |-> "none"]
    /\ user = [c \in Callers |-> NoUser]
    /\ shard = [c \in Callers |-> "none"]
    /\ session = [c \in Callers |-> NoSession]
    /\ exc = [c \in Callers |-> "none"]
    /\ result = [c \in Callers |-> Raised(Exc("none"))]
    /\ trace = [c \in Callers |-> <<>>]
    /\ began = [c \in Callers |-> {}]
    /\ checkedout = [s \in DATABASE_URLS |-> 0]
    /\ rows = [s \in DATABASE_URLS |-> <<>>]
    /\ routed = {}
    /\ lookup = <<>>

\* The keys looked up directly: the digest of a key is arbitrary, so one key
\* meets every position of every ring.
LookupKeys == {MaxUserId}

\* Any ring: a prefix of the shard list, any virtual-node count, any digest.
InitRing ==
    /\ nodes \in NodeLists
    /\ virtual_nodes \in 0..MaxVirtualNodes
    /\ md5 \in [Hashed(nodes, virtual_nodes, LookupKeys) -> Positions]
    /\ ring = _build_ring(nodes, virtual_nodes)
    /\ IdleCallers

\* consistent_hash.get_node(key), called directly.
Lookup(k) ==
    /\ lookup' = <<str(k), get_node(str(k))>>
    /\ lookup' # lookup
    /\ UNCHANGED <<ringVars, routed, callVars, dbVars>>

NextRing == \E k \in LookupKeys : Lookup(k)

SpecRing == InitRing /\ [][NextRing]_vars

\* ------------------------------------------------------------ get_session
\* An unknown shard served by the first configured session factory.
get_session_first(s) ==
    Returned([bind |-> IF s \in SESSION_MAKERS THEN s ELSE SHARDS[1], open |-> TRUE,
              conn |-> FALSE, new |-> FALSE, inserted |-> FALSE])

get_session(s) ==
    IF s \notin SESSION_MAKERS THEN Raised("ValueError")
    ELSE Returned([bind |-> s, open |-> TRUE, conn |-> FALSE, new |-> FALSE,
                   inserted |-> FALSE])

\* --------------------------------------------------------------- handlers
Event(ev, s) == <<ev, s>>
Log(c, ev) == [trace EXCEPT ![c] = Append(@, Event(ev, session[c].bind))]
Goto(c, label) == [pc EXCEPT ![c] = label]

\* The creates that have returned a user to their caller.
Created ==
    {<<user[d].user_id, user[d].attrs, shard[d]>> :
        d \in {e \in Callers : pc[e] = "done" /\ op[e] = "create" /\ result[e].ok}}

\* A request arrives: POST /users/ with a UserCreate body, or GET /users/{user_id}.
Call(c, o, k, a) ==
    /\ pc[c] = "idle"
    /\ pc' = Goto(c, "get_node")
    /\ op' = [op EXCEPT ![c] = o]
    /\ user' = [user EXCEPT ![c] = [user_id |-> k, attrs |-> a]]
    /\ began' = [began EXCEPT ![c] = IF o = "get" THEN Created ELSE {}]
    /\ UNCHANGED <<ringVars, lookup, routed, shard, session, exc, result, trace, dbVars>>

\* A cancellation that also interrupts the handler between INSERT and COMMIT
\* and abandons the session there.
CancelAnywhere(c) ==
    /\ pc[c] \in {"get_node", "commit_tx"}
    /\ pc' = Goto(c, "done")
    /\ result' = [result EXCEPT ![c] = Raised(Exc("CancelledError"))]
    /\ UNCHANGED <<ringVars, lookup, routed, op, user, shard, session, exc, trace, began, dbVars>>

\* The handlers are coroutines that never await: a cancellation is delivered
\* only before the first statement of the body runs.
Cancel(c) ==
    /\ pc[c] = "get_node"
    /\ pc' = Goto(c, "done")
    /\ result' = [result EXCEPT ![c] = Raised(Exc("CancelledError"))]
    /\ UNCHANGED <<ringVars, lookup, routed, op, user, shard, session, exc, trace, began, dbVars>>

\* get_user hashing another string than create_user does for the same user.
RoutingKeyByOp(c) ==
    IF op[c] = "get" THEN str(MaxUserId + 1 - user[c].user_id) ELSE str(user[c].user_id)

\* str(user.user_id) in create_user, str(user_id) in get_user.
RoutingKey(c) == str(user[c].user_id)

\* A lookup that removes the ring's first position as it scans.
ResolvePop(c) ==
    /\ pc[c] = "get_node"
    /\ LET r == get_node(RoutingKey(c)) IN
        /\ routed' = routed \cup {<<RoutingKey(c), r>>}
        /\ ring' = [p \in DOMAIN ring \ {Min(DOMAIN ring)} |-> ring[p]]
        /\ IF r.ok
           THEN /\ shard' = [shard EXCEPT ![c] = r.value]
                /\ trace' = [trace EXCEPT ![c] = Append(@, Event("resolve", r.value))]
                /\ pc' = Goto(c, "get_session")
                /\ UNCHANGED result
           ELSE /\ result' = [result EXCEPT ![c] = Raised(Exc(r.value))]
                /\ pc' = Goto(c, "done")
                /\ UNCHANGED <<shard, trace>>
    /\ UNCHANGED <<nodes, virtual_nodes, md5, lookup, op, user, session, exc, began, dbVars>>

\* shard = consistent_hash.get_node(...)
Resolve(c) ==
    /\ pc[c] = "get_node"
    /\ LET r == get_node(RoutingKey(c)) IN
        /\ routed' = routed \cup {<<RoutingKey(c), r>>}
        /\ IF r.ok
           THEN /\ shard' = [shard EXCEPT ![c] = r.value]
                /\ trace' = [trace EXCEPT ![c] = Append(@, Event("resolve", r.value))]
                /\ pc' = Goto(c, "get_session")
                /\ UNCHANGED result
           ELSE /\ result' = [result EXCEPT ![c] = Raised(Exc(r.value))]
                /\ pc' = Goto(c, "done")
                /\ UNCHANGED <<shard, trace>>
    /\ UNCHANGED <<ringVars, lookup, op, user, session, exc, began, dbVars>>

\* A session opened on another shard when the resolved shard's pool is empty.
GetSessionFallback(c) ==
    /\ pc[c] = "get_session"
    /\ LET target == IF checkedout[shard[c]] >= PoolSize
                      THEN CHOOSE s \in SESSION_MAKERS : s # shard[c]
                      ELSE shard[c]
           r == get_session(target) IN
        /\ session' = [session EXCEPT ![c] = r.value]
        /\ trace' = [trace EXCEPT ![c] = Append(@, Event("open", r.value.bind))]
        /\ pc' = Goto(c, IF op[c] = "create" THEN "add" ELSE "query")
    /\ UNCHANGED <<ringVars, lookup, routed, op, user, shard, exc, result, began, dbVars>>

\* session = get_session(shard)
GetSession(c) ==
    /\ pc[c] = "get_session"
    /\ LET r == get_session(shard[c]) IN
        IF r.ok
        THEN /\ session' = [session EXCEPT ![c] = r.value]
             /\ trace' = [trace EXCEPT ![c] = Append(@, Event("open", r.value.bind))]
             /\ pc' = Goto(c, IF op[c] = "create" THEN "add" ELSE "query")
             /\ UNCHANGED result
        ELSE /\ result' = [result EXCEPT ![c] = Raised(Exc(r.value))]
             /\ pc' = Goto(c, "done")
             /\ UNCHANGED <<session, trace>>
    /\ UNCHANGED <<ringVars, lookup, routed, op, user, shard, exc, began, dbVars>>

\* db_user = User(**user.dict()); session.add(db_user)
Add(c) ==
    /\ pc[c] = "add"
    /\ session' = [session EXCEPT ![c].new = TRUE]
    /\ pc' = Goto(c, "commit")
    /\ UNCHANGED <<ringVars, lookup, routed, op, user, shard, exc, result, trace, began, dbVars>>

\* The statements that need a connection: commit (its flush), refresh, query.
Waiting == {"commit", "refresh", "query"}
AfterCheckout(label) ==
    IF label = "commit" THEN "insert" ELSE IF label = "refresh" THEN "reload" ELSE "select"

\* An exception raised inside the try block: create_user catches it (except
\* Exception), get_user lets it propagate through its finally.
Throw(c, e) ==
    IF op[c] = "create"
    THEN /\ exc' = [exc EXCEPT ![c] = e]
         /\ pc' = Goto(c, "except")
         /\ UNCHANGED result
    ELSE /\ result' = [result EXCEPT ![c] = Raised(Exc(e))]
         /\ pc' = Goto(c, "finally")
         /\ UNCHANGED exc

\* The session takes a connection from its engine's pool.
Checkout(c) ==
    /\ pc[c] \in Waiting
    /\ checkedout[session[c].bind] < PoolSize
    /\ checkedout' = [checkedout EXCEPT ![session[c].bind] = @ + 1]
    /\ session' = [session EXCEPT ![c].conn = TRUE]
    /\ pc' = Goto(c, AfterCheckout(pc[c]))
    /\ UNCHANGED <<ringVars, lookup, routed, op, user, shard, exc, result, trace, began, rows>>

\* A wait that ends by reporting the user missing instead of the timeout.
PoolTimeoutAsNotFound(c) ==
    /\ pc[c] \in Waiting
    /\ checkedout[session[c].bind] >= PoolSize
    /\ trace' = Log(c, "timeout")
    /\ result' = [result EXCEPT ![c] = Raised(HTTPException(404, "User not found"))]
    /\ pc' = Goto(c, "finally")
    /\ UNCHANGED <<ringVars, lookup, routed, op, user, shard, session, exc, began, dbVars>>

\* The pool is empty and stays so until the pool's wait elapses.
PoolTimeout(c) ==
    /\ pc[c] \in Waiting
    /\ checkedout[session[c].bind] >= PoolSize
    /\ trace' = Log(c, "timeout")
    /\ Throw(c, "TimeoutError")
    /\ UNCHANGED <<ringVars, lookup, routed, op, user, shard, session, began, dbVars>>

\* Another session holds an uncommitted insert of the same primary key.
RowLocked(c) ==
    \E d \in Callers \ {c} :
        /\ session[d].inserted
        /\ session[d].bind = session[c].bind
        /\ user[d].user_id = user[c].user_id

\* The INSERT into a users table that has no primary key.
FlushInsertNoKey(c) ==
    /\ pc[c] = "insert"
    /\ trace' = Log(c, "execute")
    /\ session' = [session EXCEPT ![c].inserted = TRUE]
    /\ pc' = Goto(c, "commit_tx")
    /\ UNCHANGED <<ringVars, lookup, routed, op, user, shard, exc, result, began, dbVars>>

\* session.commit(), the flush: INSERT INTO users.
FlushInsert(c) ==
    /\ pc[c] = "insert"
    /\ ~RowLocked(c)
    /\ IF user[c].user_id \in DOMAIN rows[session[c].bind]
       THEN /\ trace' = [trace EXCEPT ![c] =
                    @ \o <<Event("execute", session[c].bind), Event("fail", session[c].bind)>>]
            /\ Throw(c, "IntegrityError")
            /\ UNCHANGED session
       ELSE /\ trace' = Log(c, "execute")
            /\ session' = [session EXCEPT ![c].inserted = TRUE]
            /\ pc' = Goto(c, "commit_tx")
            /\ UNCHANGED <<exc, result>>
    /\ UNCHANGED <<ringVars, lookup, routed, op, user, shard, began, dbVars>>

\* session.commit(), the COMMIT: the row is stored, the connection goes back.
CommitTx(c) ==
    /\ pc[c] = "commit_tx"
    /\ rows' = [rows EXCEPT ![session[c].bind] = Put(@, user[c].user_id, user[c].attrs)]
    /\ checkedout' = [checkedout EXCEPT ![session[c].bind] = @ - 1]
    /\ session' = [session EXCEPT ![c].inserted = FALSE, ![c].new = FALSE, ![c].conn = FALSE]
    /\ trace' = Log(c, "commit")
    /\ pc' = Goto(c, "refresh")
    /\ UNCHANGED <<ringVars, lookup, routed, op, user, shard, exc, result, began>>

\* The row a primary-key SELECT on the session's shard yields.
Row(c) == [user_id |-> user[c].user_id, attrs |-> rows[session[c].bind][user[c].user_id]]

\* session.refresh(db_user); return db_user
Reload(c) ==
    /\ pc[c] = "reload"
    /\ trace' = Log(c, "execute")
    /\ result' = [result EXCEPT ![c] = Returned(Row(c))]
    /\ pc' = Goto(c, "finally")
    /\ UNCHANGED <<ringVars, lookup, routed, op, user, shard, session, exc, began, dbVars>>

\* The query without the "if not db_user" check.
firstUnchecked(c) ==
    IF user[c].user_id \in DOMAIN rows[session[c].bind]
    THEN Returned(Row(c))
    ELSE Returned([user_id |-> user[c].user_id, attrs |-> "none"])

\* session.query(User).filter(User.user_id == user_id).first() and the 404.
first(c) ==
    IF user[c].user_id \in DOMAIN rows[session[c].bind]
    THEN Returned(Row(c))
    ELSE Raised(HTTPException(404, "User not found"))

\* The query returning from inside the try with no finally clause.
SelectNoFinally(c) ==
    /\ pc[c] = "select"
    /\ trace' = Log(c, "execute")
    /\ result' = [result EXCEPT ![c] = first(c)]
    /\ pc' = Goto(c, "done")
    /\ UNCHANGED <<ringVars, lookup, routed, op, user, shard, session, exc, began, dbVars>>

Select(c) ==
    /\ pc[c] = "select"
    /\ trace' = Log(c, "execute")
    /\ result' = [result EXCEPT ![c] = first(c)]
    /\ pc' = Goto(c, "finally")
    /\ UNCHANGED <<ringVars, lookup, routed, op, user, shard, session, exc, began, dbVars>>

\* The database rejects or loses the statement in progress.
Fault(c) ==
    /\ pc[c] \in {"insert", "commit_tx", "reload", "select"}
    /\ trace' = Log(c, "fail")
    /\ Throw(c, "OperationalError")
    /\ UNCHANGED <<ringVars, lookup, routed, op, user, shard, session, began, dbVars>>

\* A session that keeps its connection when it is rolled back or closed.
ReleaseNothing(c) == checkedout

\* The connection a session holds goes back to its pool.
Release(c) ==
    IF session[c].conn
    THEN [checkedout EXCEPT ![session[c].bind] = @ - 1]
    ELSE checkedout

\* The except block without session.rollback().
ExceptNoRollback(c) ==
    /\ pc[c] = "except"
    /\ result' = [result EXCEPT ![c] = Raised(HTTPException(500, exc[c]))]
    /\ pc' = Goto(c, "finally")
    /\ UNCHANGED <<ringVars, lookup, routed, op, user, shard, session, exc, trace, began, dbVars>>

\* except Exception as e: session.rollback(); raise HTTPException(500, str(e))
Except(c) ==
    /\ pc[c] = "except"
    /\ trace' = Log(c, "rollback")
    /\ checkedout' = Release(c)
    /\ session' = [session EXCEPT ![c].inserted = FALSE, ![c].new = FALSE, ![c].conn = FALSE]
    /\ result' = [result EXCEPT ![c] = Raised(HTTPException(500, exc[c]))]
    /\ pc' = Goto(c, "finally")
    /\ UNCHANGED <<ringVars, lookup, routed, op, user, shard, exc, began, rows>>

\* finally: session.close(); then the result or the exception reaches the caller.
Finally(c) ==
    /\ pc[c] = "finally"
    /\ trace' = Log(c, "close")
    /\ checkedout' = Release(c)
    /\ session' = [session EXCEPT ![c].open = FALSE, ![c].conn = FALSE,
                                  ![c].inserted = FALSE, ![c].new = FALSE]
    /\ pc' = Goto(c, "done")
    /\ UNCHANGED <<ringVars, lookup, routed, op, user, shard, exc, result, began, rows>>

\* ---------------------------------------------------------- specification
\* The digest of a virtual node spreads the nodes over the positions in list
\* order; the digest of a key is arbitrary.
Spread(ns, v, s) ==
    LET at == CHOOSE ji \in (1..Len(ns)) \X (0..(v - 1)) :
                  VirtualNodeName(ns[ji[1]], ji[2]) = s
    IN ((at[1] - 1) * v + at[2]) % HashSpace

Digests(ns, v) ==
    {[s \in Hashed(ns, v, UserIds) |-> IF s \in DOMAIN kd THEN kd[s] ELSE Spread(ns, v, s)] :
        kd \in [{str(k) : k \in UserIds} -> Positions]}

\* consistent_hash = ConsistentHashing(nodes=SHARDS, virtual_nodes=...)
Init ==
    /\ nodes = SHARDS
    /\ virtual_nodes = MaxVirtualNodes
    /\ md5 \in Digests(nodes, virtual_nodes)
    /\ ring = _build_ring(nodes, virtual_nodes)
    /\ IdleCallers

Step(c) ==
    \/ \E k \in UserIds : \/ \E a \in Attrs : Call(c, "create", k, a)
                          \/ Call(c, "get", k, "none")
    \/ Cancel(c)
    \/ Resolve(c)
    \/ GetSession(c)
    \/ Add(c)
    \/ Checkout(c)
    \/ PoolTimeout(c)
    \/ FlushInsert(c)
    \/ CommitTx(c)
    \/ Reload(c)
    \/ Select(c)
    \/ Fault(c)
    \/ Except(c)
    \/ Finally(c)

Next == \E c \in Callers : Step(c)

Spec == Init /\ [][Next]_vars

\* The pool's wait elapses and every caller's thread keeps running.
SpecFair == Spec /\ \A c \in Callers : WF_vars(Step(c))

\* Other arguments of ConsistentHashing(nodes, virtual_nodes): the program's, no
\* node, no virtual node, and a node list naming a shard with no database URL.
Misconfigured == <<"shard_1", "shard_4">>
Configurations ==
    {<<SHARDS, MaxVirtualNodes>>, <<SHARDS, 0>>, <<(<<>>), MaxVirtualNodes>>,
     <<Misconfigured, MaxVirtualNodes>>}

InitConfig ==
    /\ \E cfg \in Configurations :
          /\ nodes = cfg[1]
          /\ virtual_nodes = cfg[2]
    /\ md5 \in Digests(nodes, virtual_nodes)
    /\ ring = _build_ring(nodes, virtual_nodes)
    /\ IdleCallers

SpecConfig == InitConfig /\ [][Next]_vars

\* ------------------------------------------------------------- properties
Range(f) == {f[i] : i \in DOMAIN f}
Events(c) == {trace[c][i][1] : i \in DOMAIN trace[c]}
Count(c, ev) == Cardinality({i \in DOMAIN trace[c] : trace[c][i][1] = ev})
Key(c) == user[c].user_id
NotFound == Raised(HTTPException(404, "User not found"))

\* C1: on a ring built from a nonempty shard list with virtual_nodes >= 1,
\* get_node raises for no key and returns a shard of the configured list.
C1_GetNodeTotal ==
    (nodes # <<>> /\ virtual_nodes >= 1) =>
        /\ \A k \in LookupKeys :
              get_node(str(k)).ok /\ get_node(str(k)).value \in Range(nodes)
        /\ lookup # <<>> => lookup[2].ok /\ lookup[2].value \in Range(nodes)

C1_Witness ==
    /\ Len(nodes) >= 2 /\ virtual_nodes >= 1
    /\ lookup # <<>> /\ lookup[2].ok
    /\ \A p \in DOMAIN ring : p < md5[lookup[1]]

\* C2: on a non-empty ring a get_node call returns the shard stored at the
\* smallest position at or after the key's hash, and when no position is at or
\* after the hash, the shard stored at the minimum position.
C2_Successor ==
    (lookup # <<>> /\ DOMAIN ring # {}) =>
        LET h == md5[lookup[1]] IN
        \E p \in DOMAIN ring :
            /\ lookup[2] = Returned(ring[p])
            /\ IF \E q \in DOMAIN ring : q >= h
               THEN p >= h /\ \A q \in DOMAIN ring : q >= h => p <= q
               ELSE \A q \in DOMAIN ring : p <= q

C2_Witness ==
    /\ lookup # <<>>
    /\ Cardinality(DOMAIN ring) >= 2
    /\ Cardinality(Range(ring)) >= 2
    /\ \A q \in DOMAIN ring : q < md5[lookup[1]]

\* C3: any two get_node calls the handlers make with the same key return the
\* same shard, whatever create and get operations run in between.
C3_Deterministic ==
    \A a \in routed : \A b \in routed : a[1] = b[1] => a[2] = b[2]

C3_Witness ==
    \E c \in Callers : \E d \in Callers \ {c} :
        /\ Key(c) = Key(d)
        /\ op[c] = "create" /\ pc[c] = "done" /\ result[c].ok
        /\ began[d] # {} /\ pc[d] = "done"
        /\ shard[d] = shard[c]

\* C4: a get(K) called after a create(K, attrs) returned a user resolves the
\* shard the create wrote to, opens its session there, never reports K missing
\* and, when it returns a user, returns attrs unchanged.
C4_ReadYourWrite ==
    \A c \in Callers : \A e \in began[c] :
        (op[c] = "get" /\ e[1] = Key(c)) =>
            /\ shard[c] \in {"none", e[3]}
            /\ session[c].bind \in {"none", e[3]}
            /\ pc[c] = "done" =>
                  IF result[c].ok
                  THEN result[c].value = [user_id |-> e[1], attrs |-> e[2]]
                  ELSE result[c].value.type \in
                           {"TimeoutError", "OperationalError", "CancelledError"}

C4_Witness ==
    \E c \in Callers : \E e \in began[c] :
        /\ op[c] = "get" /\ e[1] = Key(c)
        /\ pc[c] = "done" /\ result[c].ok
        /\ session[c].bind = e[3]

\* C5: a get(K) whose select ran while no shard stored a row for K ends with
\* the 404 "User not found", and a get returns a user only when the resolved
\* shard stores that key's row, which is the user returned.
C5_Absence ==
    \A c \in Callers :
        (op[c] = "get" /\ pc[c] = "done") =>
            /\ result[c].ok =>
                  /\ Key(c) \in DOMAIN rows[shard[c]]
                  /\ result[c].value = [user_id |-> Key(c), attrs |-> rows[shard[c]][Key(c)]]
            /\ ("execute" \in Events(c) /\ \A s \in DATABASE_URLS : Key(c) \notin DOMAIN rows[s])
                  => result[c] = NotFound

C5_Witness ==
    \E c \in Callers : \E d \in Callers \ {c} :
        /\ op[c] = "get" /\ pc[c] = "done" /\ result[c] = NotFound
        /\ op[d] = "create" /\ pc[d] = "done" /\ result[d].ok /\ Key(d) # Key(c)

\* C6: in every create and get the shard is resolved first, a statement is
\* executed only on a session opened before it on the resolved shard, no commit
\* or rollback follows the release, and the caller has the result or the error
\* only after the session was released.
C6_StepOrder ==
    \A c \in Callers :
        LET t == trace[c] IN
        /\ t # <<>> => t[1] = Event("resolve", shard[c])
        /\ \A i \in DOMAIN t :
              /\ t[i][1] \in {"execute", "commit", "rollback", "close", "timeout", "fail"}
                    => /\ i > 2
                       /\ t[2] = Event("open", shard[c])
                       /\ t[i][2] = shard[c]
              /\ t[i][1] \in {"execute", "commit", "rollback"}
                    => \A j \in 1..i : t[j][1] # "close"
              /\ t[i][1] = "commit" => \E j \in 1..i : t[j][1] = "execute"
        /\ (pc[c] = "done" /\ "open" \in Events(c)) => t[Len(t)][1] = "close"

C6_Witness ==
    \E c \in Callers : \E d \in Callers \ {c} :
        /\ op[c] = "create" /\ pc[c] = "done" /\ result[c].ok
        /\ op[d] = "get" /\ pc[d] = "done" /\ result[d].ok

\* C7: a session a create or get opened is closed exactly once by the time the
\* operation finishes, on every exit path, never twice, and no connection stays
\* out of a pool without a live session holding it.
C7_ReleasedOnce ==
    /\ \A c \in Callers :
          /\ Count(c, "open") <= 1
          /\ Count(c, "close") <= Count(c, "open")
          /\ pc[c] = "done" =>
                /\ Count(c, "close") = Count(c, "open")
                /\ ~session[c].open /\ ~session[c].conn
    /\ \A s \in DATABASE_URLS :
          checkedout[s] =
              Cardinality({c \in Callers : session[c].conn /\ session[c].bind = s})

C7_Witness ==
    /\ \E c \in Callers :
          /\ op[c] = "create" /\ pc[c] = "done"
          /\ "fail" \in Events(c) /\ Count(c, "close") = 1
    /\ \E c \in Callers :
          /\ op[c] = "get" /\ pc[c] = "done"
          /\ result[c] = NotFound /\ Count(c, "close") = 1

\* C8: in create every failure inside the try block (of the insert, of the
\* commit, of waiting for a connection) is followed by a rollback on the same
\* session, and the session is not closed before that rollback.
C8_RollbackBeforeRelease ==
    \A c \in Callers :
        op[c] = "create" =>
            \A i \in DOMAIN trace[c] :
                trace[c][i][1] \in {"fail", "timeout"} =>
                    \/ pc[c] = "except"
                    \/ \E j \in DOMAIN trace[c] :
                          /\ j > i
                          /\ trace[c][j] = Event("rollback", trace[c][i][2])
                          /\ \A k \in 1..j : trace[c][k][1] # "close"

C8_Witness ==
    \E c \in Callers :
        /\ op[c] = "create" /\ pc[c] = "done"
        /\ exc[c] = "IntegrityError"
        /\ "rollback" \in Events(c)

\* C9: create returns the user exactly when its insert was committed: a create
\* that ends with the HTTP 500 committed nothing.
C9_FailureMeansNotCommitted ==
    \A c \in Callers :
        (op[c] = "create" /\ pc[c] = "done") =>
            (result[c].ok <=> "commit" \in Events(c))

\* C10 as claimed: an operation whose wait for a connection timed out ends with
\* the pool's TimeoutError surfaced to its caller.
C10_TimeoutSurfaced ==
    \A c \in Callers :
        (pc[c] = "done" /\ "timeout" \in Events(c)) =>
            result[c] = Raised(Exc("TimeoutError"))

\* C10 as amended: an operation waiting for a connection never waits forever;
\* when its wait timed out, a get ends with the pool's TimeoutError and a
\* create with the HTTP 500 whose detail is that TimeoutError.
C10_TimeoutEnds ==
    /\ [](\A c \in Callers :
            (pc[c] = "done" /\ "timeout" \in Events(c)) =>
                result[c] = IF op[c] = "get"
                            THEN Raised(Exc("TimeoutError"))
                            ELSE Raised(HTTPException(500, "TimeoutError")))
    /\ \A c \in Callers : (pc[c] \in Waiting) ~> (pc[c] = "done")

C10_Witness ==
    \E c \in Callers : \E d \in Callers \ {c} :
        /\ op[c] = "create" /\ pc[c] = "done" /\ "timeout" \in Events(c)
        /\ result[c] = Raised(HTTPException(500, "TimeoutError"))
        /\ session[d].conn /\ session[d].bind = shard[c]

\* C11: on a ring holding no position get_node raises its ValueError for every
\* key, and a create or get that meets it ends with that error having opened no
\* session, taken no connection and executed no statement.
C11_EmptyRing ==
    DOMAIN ring = {} =>
        /\ \A k \in UserIds : get_node(str(k)) = Raised("ValueError")
        /\ \A c \in Callers :
              /\ trace[c] = <<>>
              /\ session[c] = NoSession
              /\ pc[c] \in {"idle", "get_node", "done"}
              /\ pc[c] = "done" =>
                    result[c] \in {Raised(Exc("ValueError")), Raised(Exc("CancelledError"))}
        /\ \A s \in DATABASE_URLS : checkedout[s] = 0 /\ rows[s] = <<>>

C11_Witness ==
    /\ DOMAIN ring = {}
    /\ \E c \in Callers : \E d \in Callers \ {c} :
          /\ op[c] = "create" /\ pc[c] = "done" /\ result[c] = Raised(Exc("ValueError"))
          /\ op[d] = "get" /\ pc[d] = "done" /\ result[d] = Raised(Exc("ValueError"))

\* C12: a get_session call for a shard that has no database URL raises its
\* ValueError, creates no session and changes no pool; for a configured shard it
\* returns an open session bound to exactly that shard.
C12_OpenStep ==
    [][\A c \in Callers :
          (pc[c] = "get_session" /\ pc'[c] # "get_session") =>
              IF shard[c] \notin DATABASE_URLS
              THEN /\ pc'[c] = "done"
                   /\ result'[c] = Raised(Exc("ValueError"))
                   /\ session' = session
                   /\ checkedout' = checkedout
              ELSE /\ session'[c].open
                   /\ session'[c].bind = shard[c]
                   /\ \A d \in Callers \ {c} : session'[d] = session[d]
                   /\ checkedout' = checkedout]_vars

C12_Witness ==
    \E c \in Callers : \E d \in Callers \ {c} :
        /\ shard[c] \notin DATABASE_URLS \cup {"none"}
        /\ pc[c] = "done" /\ result[c] = Raised(Exc("ValueError"))
        /\ session[c] = NoSession
        /\ session[d].open /\ session[d].bind = shard[d]

Cancelled == Raised(Exc("CancelledError"))

\* C13: every shard of the ring built at startup has a session factory, so no
\* get_node result lacks one and no create or get ends with get_session's
\* ValueError: past get_session, each has its session.
C13_UnknownShardUnreachable ==
    /\ \A p \in DOMAIN ring : ring[p] \in SESSION_MAKERS
    /\ \A r \in routed : r[2].ok /\ r[2].value \in SESSION_MAKERS
    /\ \A c \in Callers :
          /\ result[c] # Raised(Exc("ValueError"))
          /\ (pc[c] \notin {"idle", "get_node", "get_session"} /\ result[c] # Cancelled)
                => "open" \in Events(c)

C13_Witness ==
    \E c \in Callers : \E d \in Callers \ {c} :
        /\ session[c].open /\ session[d].open
        /\ shard[c] # shard[d]
        /\ shard[c] = SHARDS[Len(SHARDS)]

\* C14: a create or get resolves one shard, the one get_node gives for its key,
\* opens at most one session, and every session, statement, commit, rollback
\* and close of the operation, also after a failure, is on that shard; a row is
\* stored only on the shard of its key.
C14_OneShard ==
    /\ \A c \in Callers :
          /\ Count(c, "resolve") <= 1
          /\ Count(c, "open") <= 1
          /\ shard[c] # "none" => get_node(str(Key(c))) = Returned(shard[c])
          /\ session[c].bind \in {"none", shard[c]}
          /\ \A i \in DOMAIN trace[c] : trace[c][i][2] = shard[c]
    /\ \A s \in DATABASE_URLS : \A k \in DOMAIN rows[s] : get_node(str(k)) = Returned(s)

C14_Witness ==
    \E c \in Callers : \E d \in Callers \ {c} :
        /\ op[c] = "create" /\ pc[c] = "done" /\ exc[c] = "TimeoutError"
        /\ "rollback" \in Events(c)
        /\ shard[d] = shard[c] /\ session[d].conn
        /\ \E s \in DATABASE_URLS : s # shard[c] /\ checkedout[s] = 0

\* C15: the ring holds exactly the positions its virtual nodes hash to, and a
\* position two virtual nodes hash to belongs to the one inserted last, in shard
\* list order and then replica index order.
C15_LastWriteWins ==
    LET VN == {v \in (1..Len(nodes)) \X (0..(virtual_nodes - 1)) : TRUE}
        at(v) == md5[VirtualNodeName(nodes[v[1]], v[2])]
        later(v, w) == w[1] > v[1] \/ (w[1] = v[1] /\ w[2] > v[2])
    IN  /\ DOMAIN ring = {at(v) : v \in VN}
        /\ \A v \in VN :
              (\A w \in VN : later(v, w) => at(w) # at(v)) => ring[at(v)] = nodes[v[1]]

C15_Witness ==
    \E j \in 1..Len(nodes) : \E k \in 1..Len(nodes) :
        /\ j < k /\ virtual_nodes >= 1
        /\ md5[VirtualNodeName(nodes[j], 0)] = md5[VirtualNodeName(nodes[k], 0)]
        /\ ring[md5[VirtualNodeName(nodes[j], 0)]] = nodes[k]
        /\ Cardinality(DOMAIN ring) < Len(nodes) * virtual_nodes
        /\ lookup # <<>>
        /\ md5[lookup[1]] = md5[VirtualNodeName(nodes[j], 0)]
        /\ lookup[2] = Returned(nodes[k])

\* C16: no step of a get_node call, a create or a get, in any interleaving,
\* changes the ring, its node list or its virtual-node count.
C16_RingReadOnly ==
    [][ring' = ring /\ nodes' = nodes /\ virtual_nodes' = virtual_nodes]_vars

C16_Witness ==
    /\ ring = _build_ring(nodes, virtual_nodes) /\ DOMAIN ring # {}
    /\ Cardinality(routed) >= 2
    /\ \E c \in Callers : \E d \in Callers \ {c} :
          /\ op[c] = "create" /\ pc[c] = "done" /\ "commit" \in Events(c)
          /\ op[d] = "get" /\ pc[d] = "done" /\ "execute" \in Events(d)

\* C17: a cancelled create leaves no half-committed transaction: it executed
\* nothing, or committed, or rolled back before the close; when it has ended its
\* session holds no uncommitted insert and no connection, and was closed as
\* often as it was opened.
C17_CancelledCreate ==
    \A c \in Callers :
        op[c] = "create" =>
            /\ result[c] = Cancelled =>
                  /\ pc[c] = "done"
                  /\ \/ "execute" \notin Events(c)
                     \/ "commit" \in Events(c)
                     \/ \E j \in DOMAIN trace[c] :
                           /\ trace[c][j][1] = "rollback"
                           /\ \A k \in 1..j : trace[c][k][1] # "close"
            /\ pc[c] = "done" =>
                  /\ ~session[c].inserted /\ ~session[c].conn /\ ~session[c].open
                  /\ Count(c, "close") = Count(c, "open")

C17_Witness ==
    \E c \in Callers : \E d \in Callers \ {c} :
        /\ op[c] = "create" /\ pc[c] = "done" /\ result[c] = Cancelled
        /\ op[d] = "create" /\ Key(d) = Key(c) /\ pc[d] = "done"
        /\ "commit" \in Events(d)
        /\ rows[shard[d]][Key(d)] = user[d].attrs

====
